---------------------------- MODULE Spec2Model ----------------------------
(***************************************************************************)
(* CoastMax: coasting simulation of a freewheeling vehicle over the edges  *)
(* of a path network (src/src/physics.py, src/src/params.py,               *)
(* src/src/geo.py, src/src/run_area.py).                                   *)
(*                                                                         *)
(* Python floats are modelled as decimal fixed-point numbers: the integer  *)
(* n stands for the value n * 1e-6.  Sums and differences are exact; a     *)
(* product, a quotient and a square root are rounded to the nearest        *)
(* multiple of 1e-6 (the float operations round to nearest as well, at a   *)
(* much finer grain).  Wide intermediate products are computed by          *)
(* MulDivQR so that no intermediate value leaves the 32-bit range.         *)
(***************************************************************************)
EXTENDS Integers, Sequences, FiniteSets, TLC

(***************************************************************************)
(* Fixed-point arithmetic                                                  *)
(***************************************************************************)
\* one unit is 1e-6: the resolution of the stall threshold of simulate_segment
Scale == 1000 * 1000

\* the largest value of a machine integer of the model checker
MaxInt == 2147483 * 1000 + 647

Abs(x) == IF x < 0 THEN -x ELSE x

Sgn(x) == IF x < 0 THEN -1 ELSE 1

Max(x, y) == IF x >= y THEN x ELSE y

Min(x, y) == IF x <= y THEN x ELSE y

\* F(e) with e computed once, however often F uses its argument: a local
\* variable holding the value e
Bind(e, F(_)) == CHOOSE r \in {F(x) : x \in {e}} : TRUE

\* <<q, r>> with a * b = q * d + r and 0 <= r < d, for a, b >= 0 and d > 0:
\* directly when a * b is in range, else from the halved product h
MulDivStep(h, a, b, d) ==
    LET q2 == 2 * h[1] + (2 * h[2]) \div d
        r2 == (2 * h[2]) % d
    IN  IF b % 2 = 0
        THEN <<q2, r2>>
        ELSE <<q2 + (a \div d) + ((r2 + (a % d)) \div d), (r2 + (a % d)) % d>>

RECURSIVE MulDivQR(_, _, _)
MulDivQR(a, b, d) ==
    IF b = 0 \/ a <= MaxInt \div b
    THEN <<(a * b) \div d, (a * b) % d>>
    ELSE Bind(MulDivQR(a, b \div 2, d), LAMBDA h : MulDivStep(h, a, b, d))

\* MulDivQR(a, b, Scale) for a, b below 1000 * Scale, by thousands
MulScaleQR(a, b) ==
    LET ah    == a \div 1000
        al    == a % 1000
        bh    == b \div 1000
        bl    == b % 1000
        cross == ah * bl + al * bh
        low   == (cross % 1000) * 1000 + al * bl
    IN  <<ah * bh + cross \div 1000 + low \div Scale, low % Scale>>

\* a * b / d rounded to the nearest integer (half away from zero), a, b >= 0
RoundMulDiv(a, b, d) ==
    Bind(IF d = Scale /\ a < 1000 * Scale /\ b < 1000 * Scale
         THEN MulScaleQR(a, b) ELSE MulDivQR(a, b, d),
         LAMBDA qr : qr[1] + (IF 2 * qr[2] >= d THEN 1 ELSE 0))

\* float product x * y
Mul(x, y) ==
    Bind(x, LAMBDA u : Bind(y, LAMBDA w :
        Sgn(u) * Sgn(w) * RoundMulDiv(Abs(u), Abs(w), Scale)))

\* float quotient x / y (y # 0)
Div(x, y) ==
    Bind(x, LAMBDA u : Bind(y, LAMBDA w :
        Sgn(u) * Sgn(w) * RoundMulDiv(Abs(u), Scale, Abs(w))))

\* the largest s in lo..hi with s * s <= n (lo satisfies it), s * s in range
RECURSIVE ISqrtSearch(_, _, _)
ISqrtSearch(lo, hi, n) ==
    IF lo >= hi THEN lo
    ELSE Bind(lo + (hi - lo + 1) \div 2, LAMBDA mid :
            IF mid * mid <= n
            THEN Bind(mid, LAMBDA l : ISqrtSearch(l, hi, n))
            ELSE Bind(mid - 1, LAMBDA h : ISqrtSearch(lo, h, n)))

\* s * s <= x * Scale
SquareAtMost(s, x) ==
    Bind(MulScaleQR(s, s), LAMBDA qr : qr[1] < x \/ (qr[1] = x /\ qr[2] = 0))

\* the largest s in lo..hi with s * s <= x * Scale (lo satisfies it)
RECURSIVE SqrtSearch(_, _, _)
SqrtSearch(lo, hi, x) ==
    IF lo >= hi THEN lo
    ELSE Bind(lo + (hi - lo + 1) \div 2, LAMBDA mid :
            IF SquareAtMost(mid, x)
            THEN Bind(mid, LAMBDA l : SqrtSearch(l, hi, x))
            ELSE Bind(mid - 1, LAMBDA h : SqrtSearch(lo, h, x)))

\* math.sqrt(x) for x >= 0, rounded to nearest: the square root of the
\* integer x * Scale, found between 1000 * isqrt(x) and 1000 * isqrt(x) + 999
Sqrt(x) ==
    Bind(x, LAMBDA n :
        Bind(1000 * ISqrtSearch(0, 46340, n), LAMBDA r :
            Bind(SqrtSearch(r, r + 999, n), LAMBDA s :
                IF n > MulScaleQR(s, s + 1)[1] THEN s + 1 ELSE s)))

\* the sequence f with its elements computed once (the identity on sequences)
RECURSIVE AsSeqUpTo(_, _)
AsSeqUpTo(f, n) == IF n = 0 THEN <<>> ELSE Append(AsSeqUpTo(f, n - 1), f[n])

AsSeq(f) == AsSeqUpTo(f, Len(f))

(***************************************************************************)
(* Optional floats: None, a finite float, or a non-finite float            *)
(***************************************************************************)
None == [k |-> "None", x |-> 0]

F(x) == [k |-> "float", x |-> x]

Inf == [k |-> "inf", x |-> 0]

NaN == [k |-> "nan", x |-> 0]

IsNone(o) == o.k = "None"

\* math.isfinite(r) for a value that is not None
IsFinite(o) == o.k = "float"

\* an optional list: a list of optional radii, or None
List(xs) == [k |-> "list", x |-> xs]

NoList == [k |-> "None", x |-> <<>>]

(***************************************************************************)
(* src/src/params.py                                                       *)
(***************************************************************************)
PhysicalParams ==
    [mass     |-> 85 * Scale,
     crr      |-> 4000,
     cda      |-> 300000,
     rho      |-> 1225000,
     mu_curve |-> 350000,
     g        |-> 9806650,
     dt       |-> 100000,
     vmax_cap |-> 35 * Scale]

(***************************************************************************)
(* src/src/physics.py                                                      *)
(***************************************************************************)
\* Accel with the slope's sine and cosine exchanged
AccelSwapped(v, slope_sin, slope_cos, p) ==
    Mul(-p.g, slope_cos)
    - Mul(Mul(p.crr, p.g), slope_sin)
    - Mul(Mul(Div(Mul(p.rho, p.cda), 2 * p.mass), v), v)

\* Accel with the rolling resistance pushing forward (sign slip)
AccelAssisted(v, slope_sin, slope_cos, p) ==
    Mul(-p.g, slope_sin)
    + Mul(Mul(p.crr, p.g), slope_cos)
    - Mul(Mul(Div(Mul(p.rho, p.cda), 2 * p.mass), v), v)

\* a = -p.g*slope_sin - p.crr*p.g*slope_cos - (p.rho*p.cda/(2*p.mass))*v*v
Accel(v, slope_sin, slope_cos, p) ==
    Mul(-p.g, slope_sin)
    - Mul(Mul(p.crr, p.g), slope_cos)
    - Mul(Mul(Div(Mul(p.rho, p.cda), 2 * p.mass), v), v)

\* EffectiveCap that forgets the local cap
EffectiveCapGlobalOnly(p, v_cap_local) == p.vmax_cap

\* cap = p.vmax_cap if v_cap_local is None else min(p.vmax_cap, v_cap_local)
EffectiveCap(p, v_cap_local) ==
    IF IsNone(v_cap_local) THEN p.vmax_cap ELSE Min(p.vmax_cap, v_cap_local.x)

\* step_velocity without the floor max(0.0, ...) of line 5
step_velocity_unfloored(v, slope_sin, slope_cos, p, dt, v_cap_local) ==
    Bind(Accel(v, slope_sin, slope_cos, p), LAMBDA a :
    Bind(v + Mul(a, dt), LAMBDA v_raw :
        LET cap   == EffectiveCap(p, v_cap_local)
            v_new == IF v_raw > cap THEN cap ELSE v_raw
        IN  <<v_new, a>>))

\* step_velocity without the clamp of lines 8-9
step_velocity_unclamped(v, slope_sin, slope_cos, p, dt, v_cap_local) ==
    Bind(Accel(v, slope_sin, slope_cos, p), LAMBDA a :
    Bind(Max(0, v + Mul(a, dt)), LAMBDA v_raw : <<v_raw, a>>))

\* step_velocity that returns the acceleration realised, (v_new - v)/dt
step_velocity_realised_accel(v, slope_sin, slope_cos, p, dt, v_cap_local) ==
    Bind(Accel(v, slope_sin, slope_cos, p), LAMBDA a :
    Bind(Max(0, v + Mul(a, dt)), LAMBDA v_raw :
        LET cap   == EffectiveCap(p, v_cap_local)
            v_new == IF v_raw > cap THEN cap ELSE v_raw
        IN  <<v_new, Div(v_new - v, dt)>>))

\* step_velocity returns <<v_new, a>>
step_velocity(v, slope_sin, slope_cos, p, dt, v_cap_local) ==
    Bind(Accel(v, slope_sin, slope_cos, p), LAMBDA a :
    Bind(Max(0, v + Mul(a, dt)), LAMBDA v_raw :
        LET cap   == EffectiveCap(p, v_cap_local)
            v_new == IF v_raw > cap THEN cap ELSE v_raw
        IN  <<v_new, a>>))

\* 1e-6 of "if ds_step<=1e-6"
StallEps == 1

\* 1e-6 of "surplus/max(v,1e-6)"
TimeEps == 1

\* the profile entry (ds, s_sin, s_cos) the for loop is at (idx counts from 0)
EntryAt(profile, idx) == profile[idx + 1]

\* CurveCap without the square root
CurveCapNoSqrt(p, radii, idx) ==
    IF IsNone(radii) THEN None
    ELSE LET r == IF idx < Len(radii.x) THEN radii.x[idx + 1] ELSE None
         IN  IF ~IsNone(r) /\ IsFinite(r) /\ r.x > 0
             THEN F(Max(0, Mul(Mul(p.mu_curve, p.g), r.x)))
             ELSE None

\* CurveCap without the test r > 0.0
CurveCapAnySign(p, radii, idx) ==
    IF IsNone(radii) THEN None
    ELSE LET r == IF idx < Len(radii.x) THEN radii.x[idx + 1] ELSE None
         IN  IF ~IsNone(r) /\ IsFinite(r)
             THEN F(Sqrt(Max(0, Mul(Mul(p.mu_curve, p.g), r.x))))
             ELSE None

\* lines 16-20: the local speed cap derived from the curvature radius
CurveCap(p, radii, idx) ==
    IF IsNone(radii) THEN None
    ELSE LET r == IF idx < Len(radii.x) THEN radii.x[idx + 1] ELSE None
         IN  IF ~IsNone(r) /\ IsFinite(r) /\ r.x > 0
             THEN F(Sqrt(Max(0, Mul(Mul(p.mu_curve, p.g), r.x))))
             ELSE None

\* line 13: the locals of simulate_segment on entry
SimInit(profile, v0, p, radii) ==
    [pc |-> "for", profile |-> profile, v0 |-> v0, p |-> p, radii |-> radii,
     idx |-> 0, v |-> v0, t |-> 0, s_acc |-> 0, vmax_seen |-> v0,
     v_cap_curve |-> None, s_local |-> 0, a |-> 0, n_sub |-> 0,
     last |-> "none"]

\* EnterEntryOf without s_local=0.0: the local distance of the entry before
\* is carried over
EnterEntryOfCarryingLocal(s) ==
    [s EXCEPT !.pc = "while",
              !.v_cap_curve = CurveCap(s.p, s.radii, s.idx),
              !.n_sub = 0,
              !.last = "none"]

\* lines 14-21: the for loop takes the next entry
EnterEntryOf(s) ==
    [s EXCEPT !.pc = "while",
              !.v_cap_curve = CurveCap(s.p, s.radii, s.idx),
              !.s_local = 0,
              !.n_sub = 0,
              !.last = "none"]

\* WhileCond that lets a vehicle at rest take a step
WhileCondFromRest(s) == s.s_local < EntryAt(s.profile, s.idx)[1] /\ s.v >= 0

\* line 22: the condition of the while loop
WhileCond(s) == s.s_local < EntryAt(s.profile, s.idx)[1] /\ s.v > 0

\* OvershootDistance that leaves the surplus in the total distance
OvershootDistanceKept(s_acc, surplus) == s_acc

\* OvershootDistance that takes the surplus off twice
OvershootDistanceTwice(s_acc, surplus) == s_acc - 2 * surplus

\* line 31: s_acc-=surplus
OvershootDistance(s_acc, surplus) == s_acc - surplus

\* OvershootTime that subtracts the surplus distance itself
OvershootTimeNoDivision(t, surplus, v) == t - surplus

\* line 30: t-=surplus/max(v,1e-6)
OvershootTime(t, surplus, v) == t - Div(surplus, Max(v, TimeEps))

\* PeakAfter that keeps only the latest velocity
PeakAfterLatest(vmax_seen, v) == v

\* line 28: vmax_seen=max(vmax_seen,v)
PeakAfter(vmax_seen, v) == Max(vmax_seen, v)

\* SubStepOf without the stall test of lines 25-27
SubStepOfNoStall(s) ==
    Bind(EntryAt(s.profile, s.idx), LAMBDA e :
    Bind(step_velocity(s.v, e[2], e[3], s.p, s.p.dt, s.v_cap_curve), LAMBDA sv :
    Bind(Mul(sv[1], s.p.dt), LAMBDA ds_step :
    LET ds      == e[1]
        v       == sv[1]
        s_local == s.s_local + ds_step
        surplus == s_local - ds
    IN  IF s_local > ds
        THEN [s EXCEPT !.v = v, !.a = sv[2],
                       !.s_local = ds,
                       !.s_acc = OvershootDistance(s.s_acc + ds_step, surplus),
                       !.t = OvershootTime(s.t + s.p.dt, surplus, v),
                       !.vmax_seen = PeakAfter(s.vmax_seen, v),
                       !.n_sub = s.n_sub + 1, !.last = "overshoot"]
        ELSE [s EXCEPT !.v = v, !.a = sv[2],
                       !.s_local = s_local,
                       !.s_acc = s.s_acc + ds_step,
                       !.t = s.t + s.p.dt,
                       !.vmax_seen = PeakAfter(s.vmax_seen, v),
                       !.n_sub = s.n_sub + 1, !.last = "step"])))

\* lines 23-32: one pass through the body of the while loop; last records
\* which way the pass went (stall, overshoot or plain step)
SubStepOf(s) ==
    Bind(EntryAt(s.profile, s.idx), LAMBDA e :
    Bind(step_velocity(s.v, e[2], e[3], s.p, s.p.dt, s.v_cap_curve), LAMBDA sv :
    Bind(Mul(sv[1], s.p.dt), LAMBDA ds_step :
    LET ds      == e[1]
        v       == sv[1]
        s_local == s.s_local + ds_step
        surplus == s_local - ds
    IN  IF ds_step <= StallEps
        THEN [s EXCEPT !.pc = "endwhile", !.v = 0, !.a = sv[2],
                       !.n_sub = s.n_sub + 1, !.last = "stall"]
        ELSE IF s_local > ds
        THEN [s EXCEPT !.v = v, !.a = sv[2],
                       !.s_local = ds,
                       !.s_acc = OvershootDistance(s.s_acc + ds_step, surplus),
                       !.t = OvershootTime(s.t + s.p.dt, surplus, v),
                       !.vmax_seen = PeakAfter(s.vmax_seen, v),
                       !.n_sub = s.n_sub + 1, !.last = "overshoot"]
        ELSE [s EXCEPT !.v = v, !.a = sv[2],
                       !.s_local = s_local,
                       !.s_acc = s.s_acc + ds_step,
                       !.t = s.t + s.p.dt,
                       !.vmax_seen = PeakAfter(s.vmax_seen, v),
                       !.n_sub = s.n_sub + 1, !.last = "step"])))

\* line 22: the while loop ends because its condition is false
ExitWhileOf(s) == [s EXCEPT !.pc = "endwhile"]

\* EndEntryOf without the break of line 33
EndEntryOfNoBreak(s) == [s EXCEPT !.pc = "for", !.idx = s.idx + 1]

\* line 33: a stalled vehicle ends the for loop, otherwise the next entry
EndEntryOf(s) ==
    IF s.v <= 0
    THEN [s EXCEPT !.pc = "done"]
    ELSE [s EXCEPT !.pc = "for", !.idx = s.idx + 1]

\* line 34: the profile is exhausted
ReturnOf(s) == [s EXCEPT !.pc = "done"]

\* one step of simulate_segment from the control point s.pc
SimStepOf(s) ==
    CASE s.pc = "for" /\ s.idx < Len(s.profile) -> EnterEntryOf(s)
      [] s.pc = "for" /\ s.idx >= Len(s.profile) -> ReturnOf(s)
      [] s.pc = "while" /\ WhileCond(s) -> SubStepOf(s)
      [] s.pc = "while" /\ ~WhileCond(s) -> ExitWhileOf(s)
      [] s.pc = "endwhile" -> EndEntryOf(s)
      [] OTHER -> s

\* 2, 4, 16 and 64 steps in a row (a finished run takes no more steps)
SimSteps2(s) == Bind(SimStepOf(s), LAMBDA n : SimStepOf(n))

SimSteps4(s) == Bind(SimSteps2(s), LAMBDA n : SimSteps2(n))

SimSteps16(s) ==
    Bind(SimSteps4(s), LAMBDA l : Bind(SimSteps4(l), LAMBDA m :
        Bind(SimSteps4(m), LAMBDA n : SimSteps4(n))))

SimSteps64(s) ==
    Bind(SimSteps16(s), LAMBDA l : Bind(SimSteps16(l), LAMBDA m :
        Bind(SimSteps16(m), LAMBDA n : SimSteps16(n))))

\* the run from s to the return of simulate_segment
RECURSIVE SimRun(_)
SimRun(s) ==
    IF s.pc = "done" THEN s ELSE Bind(SimSteps64(s), LAMBDA n : SimRun(n))

\* simulate_segment(profile, v0, p, radii) returns (s_acc, t, v, vmax_seen)
simulate_segment(profile, v0, p, radii) ==
    Bind(SimInit(profile, v0, p, radii), LAMBDA s0 :
    Bind(SimRun(s0), LAMBDA s : <<s.s_acc, s.t, s.v, s.vmax_seen>>))

(***************************************************************************)
(* src/src/geo.py: points are <<x, y>>, a LineString is the sequence of    *)
(* its coordinates                                                         *)
(***************************************************************************)
\* the integer nearest to the square root of n, n * 1e-12 being in range
SqrtUnits(n) ==
    Bind(ISqrtSearch(0, 46340, n), LAMBDA r : IF n - r * r > r THEN r + 1 ELSE r)

\* math.hypot(dx, dy): exact along an axis, and without the loss of the
\* squares of lengths below a millimetre
Hypot(dx, dy) ==
    IF dy = 0 THEN Abs(dx)
    ELSE IF dx = 0 THEN Abs(dy)
    ELSE IF Abs(dx) < 32768 /\ Abs(dy) < 32768
    THEN SqrtUnits(dx * dx + dy * dy)
    ELSE Sqrt(Mul(dx, dx) + Mul(dy, dy))

\* a.distance(b)
Distance(a, b) == Hypot(b[1] - a[1], b[2] - a[2])

\* line.length: the sum of the lengths of the segments
RECURSIVE LengthUpTo(_, _)
LengthUpTo(line, n) ==
    IF n <= 1 THEN 0
    ELSE LengthUpTo(line, n - 1) + Distance(line[n - 1], line[n])

LineLength(line) == LengthUpTo(line, Len(line))

\* line.interpolate(d) from segment i on, d measured from line[i]; the point
\* a + (d / seg_len) * (b - a) is rounded once, as a whole
RECURSIVE InterpolateFrom(_, _, _)
InterpolateFrom(line, i, d) ==
    IF i >= Len(line) THEN line[Len(line)]
    ELSE Bind(Distance(line[i], line[i + 1]), LAMBDA seg_len :
         LET a == line[i]
             b == line[i + 1]
         IN  IF d <= 0 THEN a
             ELSE IF d >= seg_len
             THEN Bind(d - seg_len, LAMBDA rest : InterpolateFrom(line, i + 1, rest))
             ELSE <<a[1] + Sgn(b[1] - a[1]) * RoundMulDiv(Abs(b[1] - a[1]), d, seg_len),
                    a[2] + Sgn(b[2] - a[2]) * RoundMulDiv(Abs(b[2] - a[2]), d, seg_len)>>)

\* line.interpolate(d): the point at arc length d, clamped to the ends
Interpolate(line, d) == Bind(d, LAMBDA at : InterpolateFrom(line, 1, at))

\* np.arange(0.0, stop, step): 0, step, 2*step, ... strictly below stop
Arange(stop, step) ==
    LET n == IF stop <= 0 THEN 0 ELSE (stop + step - 1) \div step
    IN  AsSeq([i \in 1..n |-> (i - 1) * step])

\* 1e-6 of max(step_m, 1e-6)
StepEps == 1

\* densify_linestring without the appended endpoint of lines 28-29
densify_linestring_no_endpoint(line, step_m) ==
    Bind(LineLength(line), LAMBDA length :
        IF length <= 0
        THEN IF Len(line) = 0 THEN <<>> ELSE <<line[1], line[Len(line)]>>
        ELSE Bind(Arange(Max(0, length), Max(step_m, StepEps)), LAMBDA dists :
             AsSeq([i \in 1..Len(dists) |-> Interpolate(line, dists[i])])))

\* densify_linestring(line, step_m)
densify_linestring(line, step_m) ==
    Bind(LineLength(line), LAMBDA length :
        IF length <= 0
        THEN IF Len(line) = 0 THEN <<>> ELSE <<line[1], line[Len(line)]>>
        ELSE Bind(Arange(Max(0, length), Max(step_m, StepEps)), LAMBDA d0 :
             Bind(IF Len(d0) = 0 \/ d0[Len(d0)] < length
                  THEN Append(d0, length) ELSE d0, LAMBDA dists :
             AsSeq([i \in 1..Len(dists) |-> Interpolate(line, dists[i])]))))

\* the area of the triangle instead of twice the area
triangle_area_single(ax, ay, bx, by, cx, cy) ==
    Abs(Mul(bx - ax, cy - ay) - Mul(by - ay, cx - ax)) \div 2

\* _triangle_area_doubled(ax, ay, bx, by, cx, cy)
triangle_area_doubled(ax, ay, bx, by, cx, cy) ==
    Abs(Mul(bx - ax, cy - ay) - Mul(by - ay, cx - ax))

\* 1e-6 of the colinearity test
RadiusEps == 1

\* SegmentRadius with the signed area of the triangle
SegmentRadiusSigned(points, i) ==
    LET a == points[i]
        b == points[i + 1]
        c == points[i + 2]
    IN  Bind(Hypot(b[1] - a[1], b[2] - a[2]), LAMBDA ab :
        Bind(Hypot(c[1] - b[1], c[2] - b[2]), LAMBDA bc :
        Bind(Hypot(c[1] - a[1], c[2] - a[2]), LAMBDA ac :
        Bind(Mul(b[1] - a[1], c[2] - a[2]) - Mul(b[2] - a[2], c[1] - a[1]),
             LAMBDA area2 :
            IF Abs(area2) <= RadiusEps \/ ab <= RadiusEps \/ bc <= RadiusEps
               \/ ac <= RadiusEps
            THEN None
            ELSE F(Div(Mul(Mul(ab, bc), ac), 2 * area2))))))

\* lines 54-66: the radius of segment i (counted from 0) of n points
SegmentRadius(points, i) ==
    LET a == points[i]
        b == points[i + 1]
        c == points[i + 2]
    IN  Bind(Hypot(b[1] - a[1], b[2] - a[2]), LAMBDA ab :
        Bind(Hypot(c[1] - b[1], c[2] - b[2]), LAMBDA bc :
        Bind(Hypot(c[1] - a[1], c[2] - a[2]), LAMBDA ac :
        Bind(triangle_area_doubled(a[1], a[2], b[1], b[2], c[1], c[2]), LAMBDA area2 :
            IF area2 <= RadiusEps \/ ab <= RadiusEps \/ bc <= RadiusEps
               \/ ac <= RadiusEps
            THEN None
            ELSE F(Div(Mul(Mul(ab, bc), ac), 2 * area2))))))

\* compute_segment_radii that leaves only the first segment without a radius
compute_segment_radii_open_end(points) ==
    LET n == Len(points)
    IN  IF n < 3 THEN AsSeq([i \in 1..Max(0, n - 1) |-> None])
        ELSE AsSeq([j \in 1..(n - 1) |->
                      IF j - 1 = 0 THEN None
                      ELSE SegmentRadius(points, Min(j - 1, n - 2))])

\* compute_segment_radii(points)
compute_segment_radii(points) ==
    LET n == Len(points)
    IN  IF n < 3 THEN AsSeq([i \in 1..Max(0, n - 1) |-> None])
        ELSE AsSeq([j \in 1..(n - 1) |->
                      IF j - 1 = 0 \/ j - 1 = n - 2 THEN None
                      ELSE SegmentRadius(points, j - 1)])

\* an elevation sample is valid: not None, not NaN, finite
ValidElevation(e) == e.k = "float"

\* RepairElevations that copies the valid sample before a gap into it
RepairElevationsForwardFill(elevations) ==
    LET n     == Len(elevations)
        valid == {i \in 1..n : ValidElevation(elevations[i])}
    IN  IF valid = {} THEN AsSeq([i \in 1..n |-> 0])
        ELSE LET first == CHOOSE i \in valid : \A j \in valid : i <= j
             IN  AsSeq([i \in 1..n |->
                    IF i < first THEN elevations[first].x
                    ELSE LET l == CHOOSE j \in valid :
                                      j <= i /\ \A m \in valid : m <= i => m <= j
                         IN  elevations[l].x])

\* lines 83-104: the elevations with the missing ones repaired
RepairElevations(elevations) ==
    LET n     == Len(elevations)
        valid == {i \in 1..n : ValidElevation(elevations[i])}
    IN  IF valid = {} THEN AsSeq([i \in 1..n |-> 0])
        ELSE LET first  == CHOOSE i \in valid : \A j \in valid : i <= j
                 last   == CHOOSE i \in valid : \A j \in valid : i >= j
                 valid2 == valid \cup {1, n}
             IN  Bind(AsSeq([i \in 1..n |->
                              IF i \in valid THEN elevations[i].x
                              ELSE IF i = 1 THEN elevations[first].x
                              ELSE IF i = n THEN elevations[last].x
                              ELSE 0]), LAMBDA z2 :
                 AsSeq([i \in 1..n |->
                    IF i \in valid2 THEN z2[i]
                    ELSE LET l == CHOOSE j \in valid2 :
                                      j < i /\ \A m \in valid2 : m < i => m <= j
                             r == CHOOSE j \in valid2 :
                                      j > i /\ \A m \in valid2 : m > i => m >= j
                             slope == Div(z2[r] - z2[l], (r - l) * Scale)
                         IN  Mul(slope, (i - l) * Scale) + z2[l]]))

\* lines 110-121: the profile entry between points i and i+1; a ds of at most
\* 1e-9 is a ds of 0 at the grain of 1e-6
ProfileEntry(points, z, i) ==
    LET dx == points[i + 1][1] - points[i][1]
        dy == points[i + 1][2] - points[i][2]
        dz == z[i + 1] - z[i]
    IN  Bind(Hypot(dx, dy), LAMBDA ds :
            IF ds <= 0 THEN <<0, 0, Scale>>
            ELSE Bind(Div(dz, ds), LAMBDA grade :
                 Bind(Sqrt(Scale + Mul(grade, grade)), LAMBDA denom :
                     <<ds, Div(grade, denom), Div(Scale, denom)>>)))

\* build_profile_from_points that appends nothing for a pair of coincident
\* points
build_profile_skipping_coincident(points, elevations) ==
    LET n == Len(points)
    IN  IF n < 2 THEN <<>>
        ELSE Bind(RepairElevations(elevations), LAMBDA z :
                 SelectSeq(AsSeq([i \in 1..(n - 1) |-> ProfileEntry(points, z, i)]),
                           LAMBDA e : e[1] > 0))

\* build_profile_from_points(points, elevations), for lists of equal length
build_profile_from_points(points, elevations) ==
    LET n == Len(points)
    IN  IF n < 2 THEN <<>>
        ELSE Bind(RepairElevations(elevations), LAMBDA z :
                 AsSeq([i \in 1..(n - 1) |-> ProfileEntry(points, z, i)]))

\* the raster at a point: its value, or NaN where the raster has no data
RasterValue(dem, pt) ==
    IF pt[1] >= dem.nodata_from THEN NaN
    ELSE F(dem.z0 + Mul(dem.gx, pt[1]))

\* the raster cannot be opened, or cannot be read at one of the points
SamplingFails(dem, points) ==
    dem.readable = FALSE \/ \E i \in 1..Len(points) : points[i][1] >= dem.bad_from

Raise == [k |-> "raise", x |-> <<>>]

\* sample_dem_points(dem_path, points, src_crs): the elevations, None for NaN
sample_dem_points(dem, points) ==
    IF Len(points) = 0 THEN List(<<>>)
    ELSE IF SamplingFails(dem, points) THEN Raise
    ELSE List(AsSeq([i \in 1..Len(points) |->
                       LET v == RasterValue(dem, points[i])
                       IN  IF v.k = "nan" THEN None ELSE v]))

\* lines 178-198: the coordinates of the prefix of length end, from segment i
\* on with acc already covered; 1e-9 and 1e-12 are 0 at the grain of 1e-6
RECURSIVE CutFrom(_, _, _, _)
CutFrom(line, i, acc, end) ==
    IF i >= Len(line) THEN <<>>
    ELSE Bind(Distance(line[i], line[i + 1]), LAMBDA seg_len :
         LET a == line[i]
             b == line[i + 1]
         IN  IF acc + seg_len < end
             THEN <<b>> \o Bind(acc + seg_len, LAMBDA covered :
                              CutFrom(line, i + 1, covered, end))
             ELSE IF seg_len <= 0 THEN <<a>>
             ELSE <<Interpolate(<<a, b>>, end - acc)>>)

\* cut_linestring_at_length that returns the whole line for any length > 0
cut_linestring_never_cuts(line, length) ==
    Bind(LineLength(line), LAMBDA total :
    Bind(Min(Max(0, length), total), LAMBDA end :
        IF end <= 0 THEN <<line[1], line[1]>> ELSE line))

\* cut_linestring_at_length(line, length)
cut_linestring_at_length(line, length) ==
    Bind(LineLength(line), LAMBDA total :
    Bind(Min(Max(0, length), total), LAMBDA end :
        IF end <= 0 THEN <<line[1], line[1]>>
        ELSE IF end >= total THEN line
        ELSE <<line[1]>> \o CutFrom(line, 1, 0, end)))

\* build_profile_and_radii(line, graph_crs, dem_path, step_m): Raise, or the
\* pair <<profile, radii>>
build_profile_and_radii(line, dem, step_m) ==
    Bind(densify_linestring(line, step_m), LAMBDA pts :
    Bind(sample_dem_points(dem, pts), LAMBDA elev :
        IF elev.k = "raise" THEN Raise
        ELSE [k |-> "ok",
              x |-> <<build_profile_from_points(pts, elev.x),
                      compute_segment_radii(pts)>>]))

(***************************************************************************)
(* State                                                                   *)
(***************************************************************************)
VARIABLES
    call,   \* the last call of step_velocity: its arguments and its result
    sim,    \* the locals of the running simulate_segment
    pe      \* the arguments and locals of the running process_edges

vars == <<call, sim, pe>>

(***************************************************************************)
(* Inputs                                                                  *)
(***************************************************************************)
\* the longest profile of the enumerated simulations
MaxProfileLen == 2

\* sequences over S of length 0..n
SeqsUpTo(S, n) == UNION {[1..m -> S] : m \in 0..n}

\* parameter sets: the defaults, a coarse step under a low global cap,
\* and the frictionless, drag-free vehicle
CoarseParams == [PhysicalParams EXCEPT !.dt = 500000, !.vmax_cap = 3 * Scale]

FreeParams == [PhysicalParams EXCEPT !.crr = 0, !.cda = 0]

\* (sin, cos) of the slopes: descents, flat, climbs
SlopeSet == {<<-100000, 994987>>, <<0, Scale>>, <<200000, 979796>>}

\* profile entries (ds, sin, cos): degenerate, 2 m down, 3 m up
EntrySet == {<<0, 0, Scale>>, <<2 * Scale, -100000, 994987>>,
             <<3 * Scale, 200000, 979796>>}

V0Set == {0, 2 * Scale, 40 * Scale}

RadiusSet == {None, F(10 * Scale), F(Scale \div 2)}

\* the scenarios of the specification: single entries with the default parameters
FlatProfile == <<<<100 * Scale, 0, Scale>>>>

DownhillProfile == <<<<50 * Scale, -100000, 994987>>>>

CurveProfile == <<<<5 * Scale, 0, Scale>>>>

\* two entries 2 m down, with radius sequences holding infinite, NaN, zero
\* and negative radii
TwoDescents == <<<<2 * Scale, -100000, 994987>>, <<2 * Scale, -100000, 994987>>>>

OddRadii ==
    {<<F(10 * Scale), Inf>>, <<NaN, F(0)>>, <<F(-10 * Scale), F(Scale \div 2)>>}

Scenarios ==
    {SimInit(FlatProfile, Scale, PhysicalParams, NoList),
     SimInit(DownhillProfile, Scale, PhysicalParams, NoList),
     SimInit(CurveProfile, 20 * Scale, PhysicalParams, List(<<F(10 * Scale)>>))}
    \cup
    {SimInit(TwoDescents, v0, PhysicalParams, List(ra)) :
        v0 \in {2 * Scale, 40 * Scale}, ra \in OddRadii}
    \cup
    {SimInit(pr, v0, p, ra) :
        pr \in SeqsUpTo(EntrySet, MaxProfileLen),
        v0 \in V0Set,
        p \in {PhysicalParams, CoarseParams},
        ra \in {NoList} \cup {List(r) : r \in SeqsUpTo(RadiusSet, MaxProfileLen)}}

Idle == [pc |-> "idle"]

NoEdges == [pc |-> "idle"]

(***************************************************************************)
(* simulate_segment, one control step at a time                            *)
(***************************************************************************)
Init == call = Idle /\ sim \in Scenarios /\ pe = NoEdges

EnterEntry ==
    /\ sim.pc = "for" /\ sim.idx < Len(sim.profile)
    /\ sim' = EnterEntryOf(sim)
    /\ UNCHANGED <<call, pe>>

SubStep ==
    /\ sim.pc = "while" /\ WhileCond(sim)
    /\ sim' = SubStepOf(sim)
    /\ UNCHANGED <<call, pe>>

ExitWhile ==
    /\ sim.pc = "while" /\ ~WhileCond(sim)
    /\ sim' = ExitWhileOf(sim)
    /\ UNCHANGED <<call, pe>>

EndEntry ==
    /\ sim.pc = "endwhile"
    /\ sim' = EndEntryOf(sim)
    /\ UNCHANGED <<call, pe>>

Return ==
    /\ sim.pc = "for" /\ sim.idx >= Len(sim.profile)
    /\ sim' = ReturnOf(sim)
    /\ UNCHANGED <<call, pe>>

Next == EnterEntry \/ SubStep \/ ExitWhile \/ EndEntry \/ Return

Spec == Init /\ [][Next]_vars

\* simulate_segment runs in one thread without waiting: a step that can be
\* taken is taken
SpecLive == Init /\ [][Next]_vars /\ WF_vars(Next)

(***************************************************************************)
(* step_velocity as a function of its arguments                            *)
(***************************************************************************)
StepParams == {PhysicalParams, CoarseParams, FreeParams}

StepDtSet == {1, 100000, Scale, 10 * Scale}

StepVSet == {0, 10, Scale, 5858607, 20 * Scale, 35 * Scale, 40 * Scale}

StepSlopeSet == SlopeSet \cup {<<-Scale, 0>>, <<Scale, 0>>}

StepCapSet == {None, F(0), F(5858607), F(50 * Scale)}

NoSim == SimInit(<<>>, 0, PhysicalParams, NoList)

InitStep == call = Idle /\ sim = NoSim /\ pe = NoEdges

StepVelocity ==
    /\ call.pc = "idle"
    /\ \E v \in StepVSet, sl \in StepSlopeSet, p \in StepParams,
          dt \in StepDtSet, v_cap_local \in StepCapSet :
         LET r == step_velocity(v, sl[1], sl[2], p, dt, v_cap_local)
         IN  /\ call' = [pc |-> "ret", v |-> v, slope_sin |-> sl[1],
                         slope_cos |-> sl[2], p |-> p, dt |-> dt,
                         v_cap_local |-> v_cap_local,
                         v_new |-> r[1], a |-> r[2]]
             /\ UNCHANGED <<sim, pe>>

NextStep == StepVelocity

SpecStep == InitStep /\ [][NextStep]_vars

(***************************************************************************)
(* src/src/run_area.py: process_edges, one edge of the network at a time   *)
(***************************************************************************)
\* the most edges of an enumerated network
MaxEdges == 2

NoGeom == NoList

LineString(coords) == [k |-> "LineString", x |-> coords]

\* edge geometries: absent, 0.5 m, exactly 1 m, 8 m straight, a 12 m right
\* angle, a 7.07 m diagonal
GeomSet ==
    {NoGeom,
     LineString(<<<<0, 0>>, <<Scale \div 2, 0>>>>),
     LineString(<<<<0, 0>>, <<Scale, 0>>>>),
     LineString(<<<<0, 0>>, <<8 * Scale, 0>>>>),
     LineString(<<<<0, 0>>, <<6 * Scale, 0>>, <<6 * Scale, 6 * Scale>>>>),
     LineString(<<<<0, 0>>, <<5 * Scale, 5 * Scale>>>>)}

\* sequences of distinct elements of S of length 0..n
DistinctSeqs(S, n) ==
    {q \in SeqsUpTo(S, n) : \A i, j \in 1..Len(q) : q[i] = q[j] => i = j}

\* the edges (u, v, key, data) of G, numbered in iteration order
EdgesOf(geoms) ==
    AsSeq([i \in 1..Len(geoms) |->
             [u |-> i, v |-> i + 1, key |-> 0, geometry |-> geoms[i]]])

\* rasters: a plane z0 + gx * x, without data from nodata_from on, failing to
\* sample from bad_from on, or not readable at all
Far == 1000 * Scale

DemSet ==
    {[readable |-> TRUE, z0 |-> 100 * Scale, gx |-> -100000, nodata_from |-> Far, bad_from |-> Far],
     [readable |-> TRUE, z0 |-> 100 * Scale, gx |-> -100000, nodata_from |-> 4 * Scale, bad_from |-> Far],
     [readable |-> TRUE, z0 |-> 100 * Scale, gx |-> 50000, nodata_from |-> Far, bad_from |-> 7 * Scale],
     [readable |-> FALSE, z0 |-> 0, gx |-> 0, nodata_from |-> Far, bad_from |-> Far]}

StepMSet == {3 * Scale, 20 * Scale}

EdgeV0Set == {0, Scale, 6 * Scale}

InitEdges ==
    /\ call = Idle /\ sim = NoSim
    /\ \E geoms \in DistinctSeqs(GeomSet, MaxEdges), dem \in DemSet,
          step_m \in StepMSet, v0 \in EdgeV0Set :
         pe = [pc |-> "for", edges |-> EdgesOf(geoms), dem |-> dem,
               step_m |-> step_m, v0 |-> v0, p |-> PhysicalParams,
               i |-> 1, results |-> <<>>]

\* the edge the for loop is at
Edge == pe.edges[pe.i]

\* line 38: length_m = float(geom.length)
EdgeLength == LineLength(Edge.geometry.x)

\* Usable that lets an edge of exactly 1.0 m through
UsableFromOneMetre == Edge.geometry.k = "LineString" /\ EdgeLength >= Scale

\* lines 36-40: the edge has a geometry longer than 1.0 m
Usable == Edge.geometry.k = "LineString" /\ EdgeLength > Scale

\* line 42: profile, radii = build_profile_and_radii(...)
Built == build_profile_and_radii(Edge.geometry.x, pe.dem, pe.step_m)

\* lines 43-47: building raised, or the profile is empty
NoProfile == IF Built.k = "raise" THEN TRUE ELSE Len(Built.x[1]) = 0

\* traveled without the clamp to the edge's length
TraveledUnclamped(dist, length_m) == dist

\* line 49: traveled = min(float(dist), length_m)
Traveled(dist, length_m) == Min(dist, length_m)

\* RecordOf that stores the geometry of the edge as it is
RecordOfWholeGeometry(e, length_m, built, v0, p) ==
    Bind(built, LAMBDA b :
    Bind(simulate_segment(b[1], v0, p, List(b[2])), LAMBDA out :
    Bind(Traveled(out[1], length_m), LAMBDA traveled :
        [u |-> e.u, v |-> e.v, key |-> e.key,
         length_m |-> length_m,
         coast_distance_m |-> traveled,
         coast_time_s |-> out[2],
         v_out_mps |-> out[3],
         v_max_mps |-> out[4],
         geometry |-> e.geometry.x,
         dist |-> out[1]])))

\* lines 48-64: the record of the edge; cut_linestring_at_length raises for
\* no LineString, so that the except branch of lines 52-53 is never taken
RecordOf(e, length_m, built, v0, p) ==
    Bind(built, LAMBDA b :
    Bind(simulate_segment(b[1], v0, p, List(b[2])), LAMBDA out :
    Bind(Traveled(out[1], length_m), LAMBDA traveled :
        [u |-> e.u, v |-> e.v, key |-> e.key,
         length_m |-> length_m,
         coast_distance_m |-> traveled,
         coast_time_s |-> out[2],
         v_out_mps |-> out[3],
         v_max_mps |-> out[4],
         geometry |-> cut_linestring_at_length(e.geometry.x, traveled),
         dist |-> out[1]])))

\* lines 35-47 for an edge e: it has a geometry longer than 1.0 m, building
\* its profile raises, it yields a record
EdgeUsable(e) ==
    IF e.geometry.k = "LineString" THEN LineLength(e.geometry.x) > Scale
    ELSE FALSE

EdgeFails(e, dem, step_m) ==
    IF EdgeUsable(e)
    THEN build_profile_and_radii(e.geometry.x, dem, step_m).k = "raise"
    ELSE FALSE

\* lines 35-64 for an edge e: its records, none or one
EdgeRecords(e, dem, step_m, v0, p) ==
    IF ~EdgeUsable(e) THEN <<>>
    ELSE Bind(build_profile_and_radii(e.geometry.x, dem, step_m), LAMBDA b :
            IF b.k = "raise" THEN <<>>
            ELSE IF Len(b.x[1]) = 0 THEN <<>>
            ELSE <<RecordOf(e, LineLength(e.geometry.x), b.x, v0, p)>>)

\* lines 31-65: process_edges(G, dem_path, step_m, v0, p) as a function of its
\* arguments, the edges of G in iteration order
RECURSIVE process_edges(_, _, _, _, _)
process_edges(edges, dem, step_m, v0, p) ==
    IF Len(edges) = 0 THEN <<>>
    ELSE EdgeRecords(Head(edges), dem, step_m, v0, p)
             \o process_edges(Tail(edges), dem, step_m, v0, p)

\* lines 35-40: an edge without geometry or not longer than 1.0 m is skipped
SkipEdge ==
    /\ pe.pc = "for" /\ pe.i <= Len(pe.edges)
    /\ ~Usable
    /\ pe' = [pe EXCEPT !.i = pe.i + 1]
    /\ UNCHANGED <<call, sim>>

\* SkipFailed that lets the exception end the loop
SkipFailedAborts ==
    /\ pe.pc = "for" /\ pe.i <= Len(pe.edges)
    /\ Usable
    /\ NoProfile
    /\ pe' = [pe EXCEPT !.i = Len(pe.edges) + 1]
    /\ UNCHANGED <<call, sim>>

\* lines 41-47: an edge whose profile cannot be built, or is empty, is skipped
SkipFailed ==
    /\ pe.pc = "for" /\ pe.i <= Len(pe.edges)
    /\ Usable
    /\ NoProfile
    /\ pe' = [pe EXCEPT !.i = pe.i + 1]
    /\ UNCHANGED <<call, sim>>

\* EmitRecord that starts an edge at the exit velocity of the previous record
EmitRecordCarryingSpeed ==
    /\ pe.pc = "for" /\ pe.i <= Len(pe.edges)
    /\ Usable
    /\ ~NoProfile
    /\ pe' = [pe EXCEPT !.i = pe.i + 1,
                        !.results = Append(pe.results,
                            RecordOf(Edge, EdgeLength, Built.x,
                                     IF Len(pe.results) = 0 THEN pe.v0
                                     ELSE pe.results[Len(pe.results)].v_out_mps,
                                     pe.p))]
    /\ UNCHANGED <<call, sim>>

\* lines 48-64: the edge is simulated and its record appended
EmitRecord ==
    /\ pe.pc = "for" /\ pe.i <= Len(pe.edges)
    /\ Usable
    /\ ~NoProfile
    /\ pe' = [pe EXCEPT !.i = pe.i + 1,
                        !.results = Append(pe.results,
                            RecordOf(Edge, EdgeLength, Built.x, pe.v0, pe.p))]
    /\ UNCHANGED <<call, sim>>

\* line 65: return results
ReturnResults ==
    /\ pe.pc = "for" /\ pe.i > Len(pe.edges)
    /\ pe' = [pe EXCEPT !.pc = "done"]
    /\ UNCHANGED <<call, sim>>

NextEdges == SkipEdge \/ SkipFailed \/ EmitRecord \/ ReturnResults

SpecEdges == InitEdges /\ [][NextEdges]_vars

(***************************************************************************)
(* process_edges on the networks whose whole runs are compared: edges that *)
(* are skipped, fail or yield a record, densified every 3 m                *)
(***************************************************************************)
BatchGeomSet ==
    {NoGeom,
     LineString(<<<<0, 0>>, <<Scale, 0>>>>),
     LineString(<<<<0, 0>>, <<8 * Scale, 0>>>>),
     LineString(<<<<0, 0>>, <<6 * Scale, 0>>, <<6 * Scale, 6 * Scale>>>>),
     LineString(<<<<0, 0>>, <<5 * Scale, 5 * Scale>>>>)}

InitBatch ==
    /\ call = Idle /\ sim = NoSim
    /\ \E geoms \in DistinctSeqs(BatchGeomSet, MaxEdges), dem \in DemSet,
          v0 \in EdgeV0Set :
         pe = [pc |-> "for", edges |-> EdgesOf(geoms), dem |-> dem,
               step_m |-> 3 * Scale, v0 |-> v0, p |-> PhysicalParams,
               i |-> 1, results |-> <<>>]

SpecBatch == InitBatch /\ [][NextEdges]_vars

(***************************************************************************)
(* src/src/geo.py: the functions of the geometry, each as a function of    *)
(* its arguments                                                           *)
(***************************************************************************)
\* the most points of an enumerated point list
MaxPoints == 5

\* the most samples of an enumerated elevation list
MaxSamples == 5

Pt(x, y) == <<x * Scale, y * Scale>>

\* lines: 8 m straight, a 12 m right angle, a 3-4-5 diagonal, a 10 m zigzag,
\* a 7.07 m diagonal, a line of length 0 and a line of 5e-6 m
LineSet ==
    {<<Pt(0, 0), Pt(8, 0)>>,
     <<Pt(0, 0), Pt(6, 0), Pt(6, 6)>>,
     <<Pt(1, 1), Pt(4, 5)>>,
     <<Pt(0, 0), Pt(3, 4), Pt(6, 0)>>,
     <<Pt(0, 0), Pt(5, 5)>>,
     <<Pt(2, 2), Pt(2, 2)>>,
     <<<<0, 0>>, <<5, 0>>>>}

TinyLine == <<<<0, 0>>, <<5, 0>>>>

CutLengthSet ==
    {-Scale, 0, 1, 3, 5, Scale, 2500000, 5 * Scale, 6 * Scale, 7071068,
     8 * Scale, 10 * Scale, 12 * Scale, 100 * Scale}

\* (line, step_m): steps in metres on the lines in metres, steps of 0, 1e-6
\* and 2e-6 m on the line of 5e-6 m
DensifyArgs ==
    {<<l, st>> : l \in LineSet \ {TinyLine},
                 st \in {Scale \div 2, 2 * Scale, 3 * Scale, 5 * Scale,
                         8 * Scale, 20 * Scale}}
    \cup {<<TinyLine, st>> : st \in {0, 1, 2, Scale}}

\* points on the circle of radius 5 m around the origin, and three points in
\* a row on the x axis
PointSet == {Pt(5, 0), Pt(4, 3), Pt(3, 4), Pt(0, 5), Pt(0, 0), Pt(-5, 0)}

\* point lists: without repetition, and some with a repeated point
PointLists ==
    DistinctSeqs(PointSet, MaxPoints)
    \cup {<<Pt(5, 0), Pt(5, 0), Pt(4, 3), Pt(3, 4)>>,
          <<Pt(5, 0), Pt(4, 3), Pt(5, 0), Pt(3, 4)>>,
          <<Pt(0, 0), Pt(0, 0), Pt(0, 0)>>}

\* elevation samples: None, NaN, 100 m, 104 m; lists of them, and some with
\* infinities
ElevSet == {None, NaN, F(100 * Scale), F(104 * Scale)}

ElevLists ==
    SeqsUpTo(ElevSet, MaxSamples)
    \cup {<<Inf, F(100 * Scale), Inf, F(104 * Scale)>>,
          <<F(98 * Scale), Inf, NaN, None, F(104 * Scale)>>}

\* the points sampled: on the x axis, 2 m apart
SamplePoints(n) == AsSeq([i \in 1..n |-> <<2 * (i - 1) * Scale, 0>>])

\* points off the axes, every second one coincident with the one before it:
\* (0,0), (3,4), (3,4), (6,8), (6,8), ...
RepeatedPoints(n) == AsSeq([i \in 1..n |-> Pt(3 * (i \div 2), 4 * (i \div 2))])

\* the point lists of a profile of n elevations
ProfilePoints(n) == {SamplePoints(n), RepeatedPoints(n)}

InitGeo == call = Idle /\ sim = NoSim /\ pe = NoEdges

CutLinestring ==
    /\ call.pc = "idle"
    /\ \E line \in LineSet, length \in CutLengthSet :
         call' = [pc |-> "cut", line |-> line, length |-> length,
                  out |-> cut_linestring_at_length(line, length)]
    /\ UNCHANGED <<sim, pe>>

DensifyLinestring ==
    /\ call.pc = "idle"
    /\ \E args \in DensifyArgs :
         call' = [pc |-> "densify", line |-> args[1], step_m |-> args[2],
                  out |-> densify_linestring(args[1], args[2])]
    /\ UNCHANGED <<sim, pe>>

ComputeSegmentRadii ==
    /\ call.pc = "idle"
    /\ \E points \in PointLists :
         call' = [pc |-> "radii", points |-> points,
                  out |-> compute_segment_radii(points)]
    /\ UNCHANGED <<sim, pe>>

\* z is the local z of build_profile_from_points after line 104
BuildProfileFromPoints ==
    /\ call.pc = "idle"
    /\ \E elevations \in ElevLists :
         \E points \in ProfilePoints(Len(elevations)) :
            call' = [pc |-> "profile", points |-> points,
                     elevations |-> elevations,
                     z |-> RepairElevations(elevations),
                     out |-> build_profile_from_points(points, elevations)]
    /\ UNCHANGED <<sim, pe>>

\* (line, step_m) of the edges built: the lines in metres with steps from
\* a sixth of their length to more than their length
BuildArgs ==
    {<<l, st>> : l \in LineSet \ {TinyLine},
                 st \in {2 * Scale, 3 * Scale, 4 * Scale, 5 * Scale, 6 * Scale,
                         20 * Scale}}

\* the local caps simulate_segment derives from the radii, entry by entry
\* (physics.py, lines 16-20)
CapsOf(built, p) ==
    IF built.k = "raise" THEN <<>>
    ELSE AsSeq([i \in 1..Len(built.x[1]) |-> CurveCap(p, List(built.x[2]), i - 1)])

\* pts is the local pts of build_profile_and_radii; caps are the local caps
\* of the simulation of the profile with the radii
BuildProfileAndRadii ==
    /\ call.pc = "idle"
    /\ \E args \in BuildArgs, dem \in DemSet :
         LET built == build_profile_and_radii(args[1], dem, args[2])
         IN  call' = [pc |-> "build", line |-> args[1], step_m |-> args[2],
                      dem |-> dem,
                      pts |-> densify_linestring(args[1], args[2]),
                      out |-> built,
                      caps |-> CapsOf(built, PhysicalParams)]
    /\ UNCHANGED <<sim, pe>>

NextGeo ==
    CutLinestring \/ DensifyLinestring \/ ComputeSegmentRadii
        \/ BuildProfileFromPoints \/ BuildProfileAndRadii

SpecGeo == InitGeo /\ [][NextGeo]_vars

(***************************************************************************)
(* Claims about step_velocity                                              *)
(***************************************************************************)
\* the velocity before the floor and the clamp, and the cap, as the claims state them
RawVelocity == call.v + Mul(call.a, call.dt)

ClaimedCap ==
    IF call.v_cap_local.k = "None" THEN call.p.vmax_cap
    ELSE Min(call.p.vmax_cap, call.v_cap_local.x)

\* C1: step_velocity never returns a negative velocity, for valid parameters,
\* any dt > 0, any slope, any v >= 0, with or without a local cap.
C1_NonNegativeVelocity == call.pc = "ret" => call.v_new >= 0

\* C1 witness: the raw velocity v + a*dt was negative and the result is 0
C1_Witness == call.pc = "ret" /\ RawVelocity < 0 /\ call.v_new = 0

\* C2: the returned velocity never exceeds min(vmax_cap, local cap) (vmax_cap
\* without a local cap), and is exactly the cap when v + a*dt is above it.
C2_HardClamp ==
    call.pc = "ret" =>
        /\ call.v_new <= ClaimedCap
        /\ (RawVelocity > ClaimedCap => call.v_new = ClaimedCap)

\* C2 witness: a local cap below vmax_cap clamps a faster raw velocity
C2_Witness ==
    /\ call.pc = "ret" /\ call.v_cap_local.k = "float"
    /\ call.v_cap_local.x < call.p.vmax_cap
    /\ RawVelocity > ClaimedCap /\ call.v_new = call.v_cap_local.x

Frictionless ==
    call.pc = "ret" /\ call.p.crr = 0 /\ call.p.cda = 0 /\ call.slope_sin = 0

\* C3 as stated: flat, frictionless and drag-free, the acceleration is 0 and the
\* velocity returned equals the input velocity, for every v >= 0 and every dt.
C3_Original == Frictionless => (call.a = 0 /\ call.v_new = call.v)

\* C3 amended: flat, frictionless and drag-free, the acceleration is 0 and the
\* velocity returned is the input velocity, clamped to the effective cap when
\* the input is above it.
C3_UnchangedUpToCap ==
    Frictionless => (call.a = 0 /\ call.v_new = Min(call.v, ClaimedCap))

\* C3 witness: a positive velocity below the cap comes back unchanged
C3_Witness ==
    Frictionless /\ call.v > 0 /\ call.v <= ClaimedCap /\ call.v_new = call.v

\* the three terms of the acceleration, as the claim states them
GravityTerm == Mul(-call.p.g, call.slope_sin)

RollingTerm == -Mul(Mul(call.p.crr, call.p.g), call.slope_cos)

DragTerm ==
    -Mul(Mul(Div(Mul(call.p.rho, call.p.cda), 2 * call.p.mass), call.v), call.v)

\* C24: the acceleration returned is -g*sin - crr*g*cos - (rho*cda/(2*mass))*v^2,
\* whether or not the velocity was floored or clamped: a negative sin gives a
\* positive gravity term, a positive sin a negative one, and for cos >= 0 the
\* rolling and drag terms are never positive.
C24_SignConvention ==
    call.pc = "ret" =>
        /\ call.a = GravityTerm + RollingTerm + DragTerm
        /\ call.slope_sin < 0 => GravityTerm > 0
        /\ call.slope_sin > 0 => GravityTerm < 0
        /\ call.slope_cos >= 0 => (RollingTerm <= 0 /\ DragTerm <= 0)

\* C24 witness: on a descent the velocity was clamped to the cap, and the
\* acceleration returned is positive and more than the velocity gained per
\* unit of time
C24_Witness ==
    /\ call.pc = "ret" /\ call.slope_sin < 0 /\ call.a > 0
    /\ call.v < ClaimedCap /\ call.v_new = ClaimedCap /\ RawVelocity > ClaimedCap
    /\ Mul(call.a, call.dt) > call.v_new - call.v
    /\ RollingTerm < 0 /\ DragTerm < 0

(***************************************************************************)
(* Claims about simulate_segment                                           *)
(***************************************************************************)
\* the sum of the ds of the first n entries of a profile
RECURSIVE SumDs(_, _)
SumDs(profile, n) == IF n = 0 THEN 0 ELSE SumDs(profile, n - 1) + profile[n][1]

ClaimedSimCap ==
    IF sim.v_cap_curve.k = "None" THEN sim.p.vmax_cap
    ELSE Min(sim.p.vmax_cap, sim.v_cap_curve.x)

\* C6 as stated: at every point of the run (on entry to each profile entry,
\* after every sub-step, at return) the velocity is at most
\* min(vmax_cap, curvature cap of the entry being processed).
C6_Original == sim.pc \in {"while", "endwhile", "done"} => sim.v <= ClaimedSimCap

\* C6 amended: once a sub-step has been taken in an entry, the velocity is at
\* most min(vmax_cap, curvature cap of that entry) until the next entry is
\* entered; the velocity carried into an entry may exceed its cap.
C6_CappedAfterSubStep == sim.n_sub > 0 => sim.v <= ClaimedSimCap

\* C6 witness: a velocity above the curvature cap on entry is at the cap after
\* the first sub-step
C6_Witness ==
    /\ sim.n_sub = 1 /\ sim.idx = 0 /\ sim.v_cap_curve.k = "float"
    /\ sim.v0 > sim.v_cap_curve.x /\ sim.v = sim.v_cap_curve.x

\* the radius of the entry being processed is present, finite and positive
HasRadius ==
    /\ sim.radii.k = "list" /\ sim.idx < Len(sim.radii.x)
    /\ sim.radii.x[sim.idx + 1].k = "float" /\ sim.radii.x[sim.idx + 1].x > 0

CurveScenario ==
    /\ sim.profile = CurveProfile /\ sim.v0 = 20 * Scale
    /\ sim.p = PhysicalParams /\ sim.radii.k = "list"

\* C7: in an entry with a present, finite, positive radius r the velocity after
\* the first sub-step is at most sqrt(mu_curve*g*r) whatever the velocity on
\* entering it; with r = 10 m and v0 = 20 m/s it is at most 5.86 m/s.
C7_InstantCurveClamp ==
    (sim.pc \in {"while", "endwhile"} /\ sim.n_sub >= 1 /\ HasRadius) =>
        /\ sim.v <= Sqrt(Mul(Mul(sim.p.mu_curve, sim.p.g),
                              sim.radii.x[sim.idx + 1].x))
        /\ CurveScenario => sim.v <= 5860000

\* C7 witness: r = 10 m, v0 = 20 m/s, after the first sub-step
C7_Witness ==
    /\ CurveScenario /\ sim.pc = "while" /\ sim.n_sub = 1
    /\ sim.v > 5 * Scale /\ sim.v <= 5860000

FlatScenario ==
    /\ sim.profile = FlatProfile /\ sim.v0 = Scale
    /\ sim.p = PhysicalParams /\ sim.radii.k = "None"

\* C8: default parameters, one flat 100 m entry, v0 = 1: the velocity never
\* increases, and the run returns exit velocity 0 and a distance below 100 m.
C8_FlatStall ==
    [][FlatScenario =>
        /\ sim'.v <= sim.v
        /\ sim'.pc = "done" => (sim'.v = 0 /\ sim'.s_acc < 100 * Scale)]_vars

\* C8 witness: the flat run has returned, stalled after covering some distance
C8_Witness ==
    /\ FlatScenario /\ sim.pc = "done" /\ sim.last = "stall"
    /\ sim.v = 0 /\ sim.s_acc > 0 /\ sim.n_sub > 1

DownhillScenario ==
    /\ sim.profile = DownhillProfile /\ sim.v0 = Scale
    /\ sim.p = PhysicalParams /\ sim.radii.k = "None"

\* the velocity at which gravity balances rolling resistance and drag on the
\* slope of the entry being processed (descents only)
TerminalVelocity ==
    LET e == EntryAt(sim.profile, 0)
        drive == Mul(-sim.p.g, e[2]) - Mul(Mul(sim.p.crr, sim.p.g), e[3])
        k == Div(Mul(sim.p.rho, sim.p.cda), 2 * sim.p.mass)
    IN  Sqrt(Div(drive, k))

\* C9: default parameters, one 50 m entry with sin = -0.1, v0 = 1: the velocity
\* after each sub-step is at least the velocity before it and never exceeds
\* the lower of vmax_cap and the terminal velocity.
C9_DownhillMonotone ==
    [][DownhillScenario =>
        /\ sim'.v >= sim.v
        /\ sim'.v <= Min(sim.p.vmax_cap, TerminalVelocity)]_vars

\* C9 witness: the downhill run has returned faster than it started
C9_Witness ==
    /\ DownhillScenario /\ sim.pc = "done" /\ sim.v > sim.v0
    /\ sim.s_acc = 50 * Scale

\* C10: with all ds >= 0 and v0 >= 0 the distance, the time and the exit
\* velocity returned are >= 0, and no sub-step (overshoot correction
\* included) lowers the accumulated time or distance.
C10_NonNegativeMonotone ==
    [][/\ sim'.t >= sim.t /\ sim'.s_acc >= sim.s_acc
       /\ sim'.pc = "done" => (sim'.s_acc >= 0 /\ sim'.t >= 0 /\ sim'.v >= 0)]_vars

\* C10 witness: an overshoot correction has acted on time and distance
C10_Witness ==
    /\ sim.last = "overshoot" /\ sim.t > 0 /\ sim.s_acc > 0
    /\ sim.t < sim.n_sub * sim.p.dt

\* the step taken is a pass through the while body that made progress
ProgressStep ==
    sim'.n_sub = sim.n_sub + 1 /\ sim'.last \in {"step", "overshoot"}

\* C11: the peak velocity starts at v0, is raised to the post-step velocity by
\* every sub-step that made progress and by nothing else, so that it is at
\* least v0 throughout and at least the exit velocity at return.
C11_PeakVelocity ==
    /\ [](sim.vmax_seen >= sim.v0)
    /\ []((sim.pc = "for" /\ sim.idx = 0) => sim.vmax_seen = sim.v0)
    /\ [](sim.pc = "done" => sim.vmax_seen >= sim.v)
    /\ [][IF ProgressStep
          THEN sim'.vmax_seen = Max(sim.vmax_seen, sim'.v)
          ELSE sim'.vmax_seen = sim.vmax_seen]_vars

\* C11 witness: the run has returned with a peak above both v0 and the exit
\* velocity
C11_Witness ==
    /\ sim.pc = "done" /\ sim.n_sub > 0
    /\ sim.vmax_seen > sim.v0 /\ sim.vmax_seen > sim.v /\ sim.v > 0

\* the step taken is a pass through the while body that stalled
StallStep == sim'.n_sub = sim.n_sub + 1 /\ sim'.last = "stall"

\* C12: a sub-step whose incremental distance is at most 1e-6 sets the velocity
\* to 0 and adds nothing to distance, time or peak velocity; the next step
\* after it is the return, with exit velocity 0 and no later entry entered.
C12_StallEndsRun ==
    /\ [][StallStep =>
            /\ Mul(step_velocity(sim.v, EntryAt(sim.profile, sim.idx)[2],
                                  EntryAt(sim.profile, sim.idx)[3], sim.p,
                                  sim.p.dt, sim.v_cap_curve)[1], sim.p.dt) <= 1
            /\ sim'.v = 0 /\ sim'.s_acc = sim.s_acc /\ sim'.t = sim.t
            /\ sim'.vmax_seen = sim.vmax_seen /\ sim'.pc = "endwhile"]_vars
    /\ [][(sim'.n_sub = sim.n_sub + 1 /\ sim'.last # "stall") =>
            Mul(sim'.v, sim.p.dt) > 1]_vars
    /\ [][(sim.last = "stall" /\ sim.pc = "endwhile") =>
            /\ sim'.pc = "done" /\ sim'.v = 0 /\ sim'.idx = sim.idx
            /\ sim'.s_acc = sim.s_acc /\ sim'.t = sim.t
            /\ sim'.vmax_seen = sim.vmax_seen]_vars

\* C12 witness: the run has returned after a stall in an entry that is not the
\* last of its profile, having covered some distance
C12_Witness ==
    /\ sim.pc = "done" /\ sim.last = "stall" /\ sim.v = 0
    /\ sim.idx + 1 < Len(sim.profile) /\ sim.s_acc > 0

\* the radius of the entry being processed, None without a radius sequence
\* or past its end
RadiusHere ==
    IF sim.radii.k = "list" /\ sim.idx < Len(sim.radii.x)
    THEN sim.radii.x[sim.idx + 1] ELSE None

\* the velocity a sub-step reaches from sim.v under the cap given
ClampedStep(cap) ==
    LET e == EntryAt(sim.profile, sim.idx)
    IN  Min(cap, Max(0, sim.v + Mul(Accel(sim.v, e[2], e[3], sim.p), sim.p.dt)))

\* C22: the local cap of an entry is sqrt(mu_curve*g*r) when its radius r is
\* present, finite and > 0, and a sub-step is then limited by the lower of it
\* and vmax_cap; without a radius sequence, with an absent, non-finite or
\* non-positive radius, or past the end of the sequence, there is no local
\* cap and a sub-step is limited by vmax_cap alone.
C22_LocalCap ==
    /\ [](sim.pc \in {"while", "endwhile"} =>
            IF RadiusHere.k = "float" /\ RadiusHere.x > 0
            THEN sim.v_cap_curve =
                    F(Sqrt(Mul(Mul(sim.p.mu_curve, sim.p.g), RadiusHere.x)))
            ELSE sim.v_cap_curve = None)
    /\ [][ProgressStep =>
            IF RadiusHere.k = "float" /\ RadiusHere.x > 0
            THEN sim'.v = ClampedStep(Min(sim.p.vmax_cap,
                    Sqrt(Mul(Mul(sim.p.mu_curve, sim.p.g), RadiusHere.x))))
            ELSE sim'.v = ClampedStep(sim.p.vmax_cap)]_vars

\* C22 witness: the second entry has an infinite radius and no local cap, and
\* a sub-step in it has taken the velocity above the cap of the first entry
C22_Witness ==
    /\ sim.pc = "while" /\ sim.idx = 1 /\ sim.n_sub >= 1
    /\ sim.radii.k = "list" /\ Len(sim.radii.x) = 2
    /\ sim.radii.x[1].k = "float" /\ sim.radii.x[2] = Inf /\ sim.v_cap_curve = None
    /\ sim.v > Sqrt(Mul(Mul(sim.p.mu_curve, sim.p.g), sim.radii.x[1].x))

\* the step taken is a pass through the while body that overshot the entry
OvershootStep == sim'.n_sub = sim.n_sub + 1 /\ sim'.last = "overshoot"

C26_Terminates ==
    /\ [][sim'.n_sub = sim.n_sub + 1 =>
            \/ sim'.s_local > sim.s_local + StallEps
            \/ sim'.s_local = EntryAt(sim.profile, sim.idx)[1]
                   /\ sim'.last = "overshoot"
            \/ sim'.v = 0 /\ sim'.pc = "endwhile" /\ sim'.last = "stall"]_vars
    /\ []((sim.pc \in {"while", "endwhile"} /\ sim.n_sub >= 1) =>
            (sim.n_sub - 1) * StallEps < EntryAt(sim.profile, sim.idx)[1])
    /\ <>(sim.pc = "done")

\* C26 witness: a run of two entries has returned with a positive velocity
\* after more than one sub-step in its last entry
C26_Witness ==
    /\ sim.pc = "done" /\ Len(sim.profile) = 2 /\ sim.idx = 2
    /\ sim.n_sub > 1 /\ sim.v > 0 /\ sim.s_acc = SumDs(sim.profile, 2)

C28_NoStartFromRest ==
    sim.v0 = 0 =>
        /\ sim.n_sub = 0 /\ sim.last = "none"
        /\ sim.s_acc = 0 /\ sim.t = 0 /\ sim.v = 0 /\ sim.vmax_seen = 0
        /\ sim.idx = 0

\* C28 witness: the run from rest over two entries, the first a descent of
\* positive length, has returned
C28_Witness ==
    /\ sim.pc = "done" /\ sim.v0 = 0 /\ Len(sim.profile) = 2
    /\ sim.profile[1][1] > 0 /\ sim.profile[1][2] < 0
    /\ sim.s_acc = 0 /\ sim.v = 0

\* C30: the peak velocity is at most max(v0, vmax_cap) throughout and at
\* return, for every profile and radius sequence; it is above vmax_cap only
\* when v0 is, and it is then v0.
C30_PeakBounded ==
    /\ sim.vmax_seen <= Max(sim.v0, sim.p.vmax_cap)
    /\ sim.vmax_seen > sim.p.vmax_cap =>
          (sim.v0 > sim.p.vmax_cap /\ sim.vmax_seen = sim.v0)

\* C30 witness: a run entered above vmax_cap has returned after sub-steps
\* that were clamped, its peak velocity being v0
C30_Witness ==
    /\ sim.pc = "done" /\ sim.v0 > sim.p.vmax_cap /\ sim.n_sub > 0
    /\ sim.s_acc > 0 /\ sim.v <= sim.p.vmax_cap /\ sim.vmax_seen = sim.v0

(***************************************************************************)
(* Claims about process_edges                                              *)
(***************************************************************************)
Records == IF pe.pc = "idle" THEN {} ELSE {pe.results[i] : i \in 1..Len(pe.results)}

\* C5: every record emitted by process_edges has coast_distance_m <= length_m,
\* the original length of its edge, whatever distance the simulation returned.
C5_CoastWithinEdge == \A r \in Records : r.coast_distance_m <= r.length_m

\* C5 witness: a record whose simulated distance exceeded the edge's length
\* and was clamped to it
C5_Witness ==
    \E r \in Records : r.dist > r.length_m /\ r.coast_distance_m = r.length_m

\* the edge with identifier u has a record
HasRecord(u) == \E r \in Records : r.u = u

\* C13: no record is emitted for an edge without geometry or with a geometry
\* of length <= 1.0 m; every emitted record has length_m > 1.0.
C13_ShortEdgesSkipped ==
    pe.pc # "idle" =>
        /\ \A r \in Records : r.length_m > Scale
        /\ \A i \in 1..Len(pe.edges) :
              ~EdgeUsable(pe.edges[i]) => ~HasRecord(pe.edges[i].u)

\* C13 witness: the run has returned, an edge of exactly 1.0 m has no record
\* and a later edge has one
C13_Witness ==
    /\ pe.pc = "done"
    /\ \E i, j \in 1..Len(pe.edges) :
          /\ i < j /\ pe.edges[i].geometry.k = "LineString"
          /\ LineLength(pe.edges[i].geometry.x) = Scale
          /\ ~HasRecord(pe.edges[i].u) /\ HasRecord(pe.edges[j].u)

\* the edges that do not fail
NotFailing(e) == ~EdgeFails(e, pe.dem, pe.step_m)

\* C14: an edge whose profile and radii cannot be built gets no record, the
\* loop runs on to the last edge, and the records returned are exactly those
\* of the network without the failing edges.
C14_FailureIsolated ==
    pe.pc = "done" =>
        /\ pe.i = Len(pe.edges) + 1
        /\ \A i \in 1..Len(pe.edges) :
              ~NotFailing(pe.edges[i]) => ~HasRecord(pe.edges[i].u)
        /\ pe.results = process_edges(SelectSeq(pe.edges, NotFailing),
                                      pe.dem, pe.step_m, pe.v0, pe.p)

\* C14 witness: the run has returned, an edge failed and a later edge has its
\* record
C14_Witness ==
    /\ pe.pc = "done"
    /\ \E i, j \in 1..Len(pe.edges) :
          i < j /\ ~NotFailing(pe.edges[i]) /\ HasRecord(pe.edges[j].u)

Reverse(q) == [i \in 1..Len(q) |-> q[Len(q) + 1 - i]]

RecordSet(q) == {q[i] : i \in 1..Len(q)}

\* the records of a sequence of edges processed on its own
RecordsOf(edges) ==
    RecordSet(process_edges(edges, pe.dem, pe.step_m, pe.v0, pe.p))

\* the edge has a geometry longer than 1.0 m, its profile is built without
\* error and is not empty
Survivor(e) ==
    IF EdgeUsable(e)
    THEN Bind(build_profile_and_radii(e.geometry.x, pe.dem, pe.step_m),
              LAMBDA b : IF b.k = "raise" THEN FALSE ELSE Len(b.x[1]) > 0)
    ELSE FALSE

\* C15: the records returned are one per surviving edge, in iteration order,
\* each with the identifiers of its edge; processing the edges in reverse
\* order, or each edge on its own, yields the same set of records.
C15_OneRecordPerSurvivor ==
    pe.pc = "done" =>
        LET surv == SelectSeq(pe.edges, Survivor)
            n    == Len(pe.edges)
        IN  /\ Len(pe.results) = Len(surv)
            /\ \A k \in 1..Len(surv) :
                  /\ pe.results[k].u = surv[k].u
                  /\ pe.results[k].v = surv[k].v
                  /\ pe.results[k].key = surv[k].key
            /\ RecordsOf(Reverse(pe.edges)) = Records
            /\ UNION {RecordsOf(<<pe.edges[k]>>) : k \in 1..n} = Records

\* C15 witness: the run has returned two different records, the first of an
\* edge that was left at another velocity than v0
C15_Witness ==
    /\ pe.pc = "done" /\ Len(pe.results) = 2
    /\ pe.results[1].u = 1 /\ pe.results[2].u = 2
    /\ pe.results[1].v_out_mps # pe.v0
    /\ pe.results[1].geometry # pe.results[2].geometry

(***************************************************************************)
(* Claims about the geometry                                               *)
(***************************************************************************)
\* the point pt lies on the segment from a to b, within 2e-6 m
OnSegment(pt, a, b) == Distance(a, pt) + Distance(pt, b) <= Distance(a, b) + 2

\* C16: cut_linestring_at_length(line, L) is the two-point line at the start
\* point when L <= 0, the line itself when L >= its length, and otherwise the
\* prefix of the line of length L: the start point, the vertices passed and
\* a last point on the line, of total length L (within 2e-6 m).
C16_CutPrefix ==
    call.pc = "cut" =>
        LET line  == call.line
            out   == call.out
            total == LineLength(line)
            m     == Len(out)
        IN  /\ call.length <= 0 => out = <<line[1], line[1]>>
            /\ call.length >= total => out = line
            /\ (0 < call.length /\ call.length < total) =>
                  /\ m >= 2 /\ m <= Len(line) /\ out[1] = line[1]
                  /\ \A k \in 2..(m - 1) : out[k] = line[k]
                  /\ OnSegment(out[m], line[m - 1], line[m])
                  /\ Abs(LineLength(out) - call.length) <= 2

\* C16 witness: a line of three vertices cut inside its second segment
C16_Witness ==
    /\ call.pc = "cut" /\ Len(call.line) = 3 /\ Len(call.out) = 3
    /\ call.out[2] = call.line[2] /\ call.out[3] # call.line[3]
    /\ call.out[3] # call.line[2] /\ LineLength(call.out) = call.length

\* the number of multiples of step that are >= 0 and strictly below length
MultiplesBelow(length, step) == (length + step - 1) \div step

C18_RadiiShape ==
    call.pc = "radii" =>
        LET n   == Len(call.points)
            out == call.out
        IN  /\ Len(out) = Max(0, n - 1)
            /\ Len(out) > 0 => (out[1] = None /\ out[Len(out)] = None)
            /\ \A j \in 1..Len(out) :
                  out[j] # None => (out[j].k = "float" /\ out[j].x > 0)
            /\ n < 3 => \A j \in 1..Len(out) : out[j] = None

\* C18 witness: five points whose two interior segments have a radius
C18_Witness ==
    /\ call.pc = "radii" /\ Len(call.points) = 5 /\ Len(call.out) = 4
    /\ call.out[2].k = "float" /\ call.out[3].k = "float"
    /\ call.out[1] = None /\ call.out[4] = None

\* a coordinate in whole metres
Metres(x) == IF x < 0 THEN -((-x) \div Scale) ELSE x \div Scale

\* the points j-1, j, j+1 lie exactly on one straight line
Colinear(points, j) ==
    LET a == points[j - 1]
        b == points[j]
        c == points[j + 1]
    IN  Metres(b[1] - a[1]) * Metres(c[2] - a[2])
            = Metres(b[2] - a[2]) * Metres(c[1] - a[1])

\* the points j-1, j, j+1 are three different points of the circle of radius
\* 5 m around the origin
OnCircle(points, j) ==
    /\ \A k \in {j - 1, j, j + 1} :
          Metres(points[k][1]) * Metres(points[k][1])
              + Metres(points[k][2]) * Metres(points[k][2]) = 25
    /\ points[j - 1] # points[j] /\ points[j] # points[j + 1]
    /\ points[j - 1] # points[j + 1]

\* C19: the segment of three exactly colinear points has no radius, and the
\* segment of three points of a circle of radius R has the radius R, within
\* 1e-4 m.
C19_RadiiValues ==
    call.pc = "radii" =>
        \A j \in 2..(Len(call.points) - 2) :
            /\ Colinear(call.points, j) => call.out[j] = None
            /\ OnCircle(call.points, j) =>
                  /\ call.out[j].k = "float"
                  /\ Abs(call.out[j].x - 5 * Scale) <= 100

\* C19 witness: five points, the first three on the circle, the second to
\* fourth different and in a row
C19_Witness ==
    /\ call.pc = "radii" /\ Len(call.points) = 5
    /\ OnCircle(call.points, 2) /\ call.out[2].k = "float"
    /\ Colinear(call.points, 3) /\ call.points[2] # call.points[3]
    /\ call.points[3] # call.points[4] /\ call.points[2] # call.points[4]
    /\ call.out[3] = None

\* the indices of the valid elevations of the call
ValidAt == {i \in 1..Len(call.elevations) : call.elevations[i].k = "float"}

\* C20: missing elevations (None, NaN, infinite) are repaired before the
\* grades are computed: before the first valid sample they take its value,
\* after the last valid sample its value, between two valid samples the value
\* interpolated linearly by index (within 1e-6 m); valid samples are kept and
\* the slope of each profile entry between two different points has the sign
\* of the repaired difference.
C20_ElevationRepair ==
    (call.pc = "profile" /\ ValidAt # {}) =>
        LET e == call.elevations
            z == call.z
        IN  /\ Len(z) = Len(e)
            /\ \A i \in ValidAt : z[i] = e[i].x
            /\ \A i \in 1..Len(e) \ ValidAt :
                  /\ (\A j \in ValidAt : j > i) =>
                        \E f \in ValidAt :
                            (\A j \in ValidAt : f <= j) /\ z[i] = e[f].x
                  /\ (\A j \in ValidAt : j < i) =>
                        \E l \in ValidAt :
                            (\A j \in ValidAt : l >= j) /\ z[i] = e[l].x
                  /\ \A l, r \in ValidAt :
                        (l < i /\ i < r /\ \A j \in ValidAt : j <= l \/ j >= r) =>
                            Abs((z[i] - e[l].x) * (r - l)
                                    - (e[r].x - e[l].x) * (i - l)) <= r - l
            /\ \A i \in 1..Len(call.out) :
                  call.out[i][1] > 0 =>
                      /\ z[i + 1] > z[i] => call.out[i][2] > 0
                      /\ z[i + 1] < z[i] => call.out[i][2] < 0
                      /\ z[i + 1] = z[i] => call.out[i][2] = 0

\* C20 witness: a missing run before the first valid sample, a gap between
\* two different valid samples and a missing run after the last one
C20_Witness ==
    /\ call.pc = "profile" /\ Len(call.elevations) = 5
    /\ ValidAt = {2, 4}
    /\ call.elevations[2].x < call.elevations[4].x
    /\ call.z[1] = call.z[2] /\ call.z[5] = call.z[4]
    /\ 2 * call.z[3] = call.z[2] + call.z[4]
    /\ call.out[2][2] > 0 /\ call.out[1][2] = 0

\* C21: when no elevation is valid, build_profile_from_points returns without
\* error a flat profile: one entry per pair of consecutive points (N-1 of them
\* for N >= 1 points), each with sin = 0, cos = 1 and ds the planar distance of
\* the pair, 0 for coincident points.
C21_FlatWithoutElevations ==
    (call.pc = "profile" /\ ValidAt = {}) =>
        LET pts == call.points
            out == call.out
        IN  /\ Len(out) = Max(0, Len(pts) - 1)
            /\ \A i \in 1..Len(out) :
                  /\ out[i][2] = 0 /\ out[i][3] = Scale
                  /\ out[i][1] = Distance(pts[i], pts[i + 1])
                  /\ pts[i] = pts[i + 1] => out[i][1] = 0

\* C21 witness: five points without a valid elevation, None, NaN and infinity
\* among them, one pair coincident and one pair 5 m apart
C21_Witness ==
    /\ call.pc = "profile" /\ Len(call.points) >= 4 /\ ValidAt = {}
    /\ \E i, j \in 1..Len(call.elevations) :
          call.elevations[i] = None /\ call.elevations[j] = NaN
    /\ call.points[2] = call.points[3] /\ call.out[2] = <<0, 0, Scale>>
    /\ call.out[1] = <<5 * Scale, 0, Scale>>

\* C25: the geometry of every record is the geometry of its edge truncated to
\* coast_distance_m: it starts at the start of the edge, follows its vertices
\* and ends on it, with length coast_distance_m (within 2e-6 m); it is the
\* two-point line at the start when coast_distance_m is 0 and the geometry of
\* the edge when coast_distance_m equals length_m.
C25_TruncatedGeometry ==
    \A r \in Records :
        LET line == pe.edges[r.u].geometry.x
            g    == r.geometry
            m    == Len(g)
        IN  /\ m >= 2 /\ m <= Len(line) /\ g[1] = line[1]
            /\ \A k \in 2..(m - 1) : g[k] = line[k]
            /\ OnSegment(g[m], line[m - 1], line[m])
            /\ Abs(LineLength(g) - r.coast_distance_m) <= 2
            /\ r.coast_distance_m = 0 => g = <<line[1], line[1]>>
            /\ r.coast_distance_m = r.length_m => g = line

\* C25 witness: a record of an edge left after a part of its length, its
\* geometry ending inside the first segment of the edge
C25_Witness ==
    \E r \in Records :
        /\ r.coast_distance_m > 0 /\ r.coast_distance_m < r.length_m
        /\ Len(r.geometry) = 2
        /\ r.geometry[2] # pe.edges[r.u].geometry.x[2]
        /\ r.geometry[2] # r.geometry[1]
        /\ LineLength(r.geometry) = r.coast_distance_m

\* C29: an edge densified into 3 or fewer points, which is an edge of length
\* <= 2*step_m, gets from build_profile_and_radii a radius sequence without
\* any radius and is simulated without a local cap; a local cap applies only
\* to an entry that is neither the first nor the last, of an edge of at least
\* 4 densified points.
C29_ShortEdgesUncapped ==
    (call.pc = "build" /\ call.out.k = "ok") =>
        LET n      == Len(call.pts)
            radii  == call.out.x[2]
            length == LineLength(call.line)
        IN  /\ Len(radii) = Max(0, n - 1) /\ Len(call.caps) = Len(radii)
            /\ length > 0 => (n <= 3 <=> length <= 2 * call.step_m)
            /\ n <= 3 =>
                  \A j \in 1..Len(radii) : radii[j] = None /\ call.caps[j] = None
            /\ \A j \in 1..Len(radii) :
                  (radii[j] # None \/ call.caps[j] # None) =>
                      n >= 4 /\ j > 1 /\ j < Len(radii)

\* C29 witness: a right angle of 12 m densified every 6 m into its three
\* vertices, which are not in a row, and left without any radius
C29_Witness ==
    /\ call.pc = "build" /\ call.out.k = "ok"
    /\ call.pts = <<Pt(0, 0), Pt(6, 0), Pt(6, 6)>>
    /\ LineLength(call.line) = 2 * call.step_m
    /\ call.out.x[2] = <<None, None>> /\ call.caps = <<None, None>>

=============================================================================
